---- MODULE Spec2Model ----
(***************************************************************************)
(* Model of src/run_server.py: the VizierService host (construction in     *)
(* __attrs_post_init__, the endpoint property, the self-client stub) and   *)
(* the script entry point main (usage check, construction, idle loop,      *)
(* KeyboardInterrupt handler).                                             *)
(*                                                                         *)
(* The transport (grpc), the servicer and the stub factory are called, not *)
(* defined, by this file.  Their effects are modelled by what the calls do *)
(* to the sockets, the worker pool and the calls in flight; where a        *)
(* collaborator may fail, the failure is a nondeterministic choice.        *)
(*                                                                         *)
(* What the file leaves to its environment is modelled as follows.         *)
(*  - A bind the transport refuses raises out of add_insecure_port; the    *)
(*    file never reads the call's return value.                            *)
(*  - grpc.server is called with default options, so whether two servers   *)
(*    of one process may hold the same port is the platform's choice       *)
(*    (reusePort), fixed for a run; a port held by another process         *)
(*    (foreign) is never shared.                                           *)
(*  - Port 0 makes the system pick a port from the dynamic range.          *)
(*  - A server whose object is collected, or whose process ends, is taken  *)
(*    down; the file itself never calls stop.                              *)
(*  - One KeyboardInterrupt is delivered per run.                          *)
(*                                                                         *)
(* Spec is the whole program; LibSpec is the class imported and            *)
(* constructed by concurrent users; MainSpec is the file run as a script.  *)
(***************************************************************************)
EXTENDS Integers, Sequences, FiniteSets, TLC

\* ------------------------------------------------------------------ bounds

\* Number of VizierService objects a library user may construct concurrently.
NumHosts == 2

\* Number of distinct fixed ports, counted from the default port.
NumPorts == 2

\* Number of calls issued through self-client stubs.
MaxCalls == 1

\* Calls of other clients waiting for a worker of one server.
MaxBacklog == 1

\* `del` statements a user runs on one name.
MaxDels == 2

\* ------------------------------------------------------- program constants

\* flags.DEFINE_integer('port', 28080, ...) and the default of _port.
DefaultPort == 28080

\* futures.ThreadPoolExecutor(max_workers=30)
MaxWorkers == 30

\* default=datetime.timedelta(seconds=0.1), in milliseconds.
RecyclePeriodMs == 100

Hosts == 1 .. NumHosts

\* Fixed ports a caller may ask for; 0 asks the transport for an ephemeral one.
FixedPorts == DefaultPort .. (DefaultPort + NumPorts - 1)

PortArgs == {0} \cup FixedPorts

\* The default host '0.0.0.0' and the loopback address.
HostNames == {"0.0.0.0", "127.0.0.1"}

CallIds == 1 .. MaxCalls

VARIABLES
    mode,       \* "script": run through app.run(main); "library": the class is imported
    argc,       \* len(argv) handed to main
    flagHost,   \* the host address of the run: FLAGS.host, or the one the users pass
    mainPc,     \* position of main
    interrupted,\* where main was when the KeyboardInterrupt was delivered ("": not delivered)
    delCount,   \* number of times main executed `del service`
    svc,        \* the VizierService objects: their attrs fields and construction position
    srv,        \* the grpc server object created by each VizierService
    foreign,    \* fixed ports held by sockets of other processes
    reusePort,  \* whether the platform lets servers created with default options share a port
    sawInUse,   \* per host: what the bind step found ("", "free", "inuse")
    lastRead,   \* per host: the value returned by the latest read of endpoint
    calls,      \* the calls issued through stubs
    kept,       \* per host: what the user's scope holds of it (see NoKept)
    waiting,    \* per host: seconds (in ms) a caller of the wait method is sleeping (0: nobody)
    lastStore,  \* per host: the value returned by the latest read of datastore
    load        \* per server: calls of other clients, queued and running on its pool

vars == <<mode, argc, flagHost, mainPc, interrupted, delCount, svc, srv, foreign, reusePort,
          sawInUse, lastRead, calls, kept, waiting, lastStore, load>>

\* ---------------------------------------------------------------- endpoint

Digit == <<"0", "1", "2", "3", "4", "5", "6", "7", "8", "9">>

\* str.format of an int: its decimal digits, most significant first.
RECURSIVE IntStr(_)
IntStr(n) == IF n < 10 THEN Digit[n + 1] ELSE IntStr(n \div 10) \o Digit[(n % 10) + 1]

\* Mutant: the default port is formatted instead of the object's own.
endpointDefaultPort(self) == self.host \o ":" \o IntStr(DefaultPort)

\* VizierService.endpoint: f'{self._host}:{self._port}'
endpoint(self) == self.host \o ":" \o IntStr(self.port)

\* The port an address string names, as the transport resolves it.
TargetPort(s) ==
    IF \E h \in HostNames, p \in PortArgs : (h \o ":" \o IntStr(p)) = s
    THEN CHOOSE p \in PortArgs : \E h \in HostNames : (h \o ":" \o IntStr(p)) = s
    ELSE -1

\* ------------------------------------------------------------ construction

NoSvc == [pc |-> "none", host |-> "", port |-> 0, period |-> 0, servicer |-> 0,
          server |-> 0, stub |-> "", done |-> <<>>, failedAt |-> ""]

\* A call not yet issued.  `to` is the address of the stub it goes through,
\* `late` whether the stub's host had been released when it was issued.
NoCall == [state |-> "none", via |-> 0, to |-> "", late |-> FALSE, at |-> 0, by |-> 0]

\* The scope of a library user before it touches a host: `stub` is the copy it
\* took of the stub attribute ("": none), `dels` the number of `del` statements
\* it ran on the name bound to the host, `error` what the last of them raised.
NoKept == [stub |-> "", dels |-> 0, error |-> ""]

\* The storage backend a servicer created for itself, named after its owner.
DatastoreOf(servicer) == [owner |-> servicer]

\* No datastore read yet.
NoStore == [owner |-> -1]

\* A pool with no call of another client.
NoLoad == [queued |-> 0, running |-> 0]

NoSrv == [exists |-> FALSE, pool |-> "none", handler |-> 0, port |-> 0, state |-> "new"]

\* Mutant: the stub is built before the server is started.
StepOrderStubBeforeStart == <<"servicer", "server", "register", "bind", "stub", "start">>

\* Mutant: the server is created before the servicer.
StepOrderServerFirst == <<"server", "servicer", "register", "bind", "start", "stub">>

\* The statements of __attrs_post_init__, in program order.
StepOrder == <<"servicer", "server", "register", "bind", "start", "stub">>

\* The statement host i executes next.
Cur(i) ==
    IF svc[i].pc = "init" /\ Len(svc[i].done) < Len(StepOrder)
    THEN StepOrder[Len(svc[i].done) + 1]
    ELSE "-"

ProcAlive == mainPc \notin {"exit_ok", "exit_usage", "exit_error", "exit_interrupt"}

\* Thread running the constructor of host i may take a step.
Running(i) == ProcAlive /\ (mode = "library" \/ (i = 1 /\ mainPc = "construct"))

Advance(self, kind) == [self EXCEPT !.done = Append(@, kind)]

Raise(self, kind) == [self EXCEPT !.pc = "raised", !.failedAt = kind]

\* VizierService(host=h, port=p): attrs sets the init=True fields, then runs
\* __attrs_post_init__.
Construct(i, h, p) ==
    /\ svc[i].pc = "none"
    /\ svc' = [svc EXCEPT ![i] = [NoSvc EXCEPT !.pc = "init", !.host = h, !.port = p,
                                                !.period = RecyclePeriodMs]]

\* A library user constructs a host.  The objects are interchangeable, so they
\* are numbered in the order their constructors are entered; the users of one
\* run construct on the same host address, which varies between runs.
BeginConstruct(i) ==
    /\ mode = "library"
    /\ \A j \in Hosts : j < i => svc[j].pc # "none"
    /\ \E p \in PortArgs : Construct(i, flagHost, p)
    /\ UNCHANGED <<mode, argc, flagHost, kept, waiting, lastStore, load, mainPc,
                   interrupted, delCount, srv, foreign, reusePort, sawInUse, lastRead,
                   calls>>

\* self._servicer = vizier_service.VizierServicer(...): succeeds, or raises.
ServicerStep(i) ==
    /\ Running(i) /\ Cur(i) = "servicer"
    /\ \/ svc' = [svc EXCEPT ![i] = [Advance(@, "servicer") EXCEPT !.servicer = i]]
       \/ svc' = [svc EXCEPT ![i] = Raise(@, "servicer")]
    /\ UNCHANGED <<mode, argc, flagHost, kept, waiting, lastStore, load, mainPc,
                   interrupted, delCount, srv, foreign, reusePort, sawInUse, lastRead,
                   calls>>

\* self._server = grpc.server(futures.ThreadPoolExecutor(max_workers=30))
ServerStep(i) ==
    /\ Running(i) /\ Cur(i) = "server"
    /\ svc' = [svc EXCEPT ![i] = [Advance(@, "server") EXCEPT !.server = i]]
    /\ srv' = [srv EXCEPT ![i] = [NoSrv EXCEPT !.exists = TRUE, !.pool = "live"]]
    /\ UNCHANGED <<mode, argc, flagHost, kept, waiting, lastStore, load, mainPc,
                   interrupted, delCount, foreign, reusePort, sawInUse, lastRead, calls>>

\* add_VizierServiceServicer_to_server(self._servicer, self._server); reading an
\* attribute that was never set raises AttributeError.
RegisterStep(i) ==
    /\ Running(i) /\ Cur(i) = "register"
    /\ IF svc[i].servicer = 0 \/ svc[i].server = 0
       THEN /\ svc' = [svc EXCEPT ![i] = Raise(@, "register")]
            /\ UNCHANGED srv
       ELSE /\ svc' = [svc EXCEPT ![i] = Advance(@, "register")]
            /\ srv' = [srv EXCEPT ![svc[i].server].handler = svc[i].servicer]
    /\ UNCHANGED <<mode, argc, flagHost, kept, waiting, lastStore, load, mainPc,
                   interrupted, delCount, foreign, reusePort, sawInUse, lastRead, calls>>

\* Servers of this process holding an open socket on port q.
Holders(q) == {j \in Hosts : srv[j].exists /\ srv[j].port = q}

InUse(q) == q \in foreign \/ Holders(q) # {}

\* Whether the transport grants port q to a server created with default options:
\* never against another process's socket, and against a server of this process
\* only where the platform shares ports between such servers.
CanBind(q) == q \notin foreign /\ (Holders(q) = {} \/ reusePort)

\* The port the system hands to host i when it asks for port 0: one from the
\* dynamic range, which no other socket holds.
Ephemeral(i) == 32768 + i

\* A failed bind raises out of add_insecure_port, and nothing catches it.
BindFailed(self) == Raise(self, "bind")

\* self._server.add_insecure_port(self.endpoint)
BindStep(i) ==
    /\ Running(i) /\ Cur(i) = "bind"
    /\ IF svc[i].server = 0
       THEN /\ svc' = [svc EXCEPT ![i] = Raise(@, "bind")]
            /\ UNCHANGED <<srv, sawInUse>>
       ELSE LET want == TargetPort(endpoint(svc[i])) IN
            IF want = 0
            THEN \* port 0: the system picks a port nobody holds, outside the fixed ones
                 /\ svc' = [svc EXCEPT ![i] = Advance(@, "bind")]
                 /\ srv' = [srv EXCEPT ![svc[i].server].port = Ephemeral(i)]
                 /\ sawInUse' = [sawInUse EXCEPT ![i] = "free"]
            ELSE /\ sawInUse' = [sawInUse EXCEPT ![i] = IF InUse(want) THEN "inuse" ELSE "free"]
                 /\ IF want \in FixedPorts /\ CanBind(want)
                    THEN /\ svc' = [svc EXCEPT ![i] = Advance(@, "bind")]
                         /\ srv' = [srv EXCEPT ![svc[i].server].port = want]
                    ELSE /\ svc' = [svc EXCEPT ![i] = BindFailed(@)]
                         /\ UNCHANGED srv
    /\ UNCHANGED <<mode, argc, flagHost, kept, waiting, lastStore, load, mainPc,
                   interrupted, delCount, foreign, reusePort, lastRead, calls>>

\* self._server.start(): succeeds, or raises.
StartStep(i) ==
    /\ Running(i) /\ Cur(i) = "start"
    /\ IF svc[i].server = 0
       THEN /\ svc' = [svc EXCEPT ![i] = Raise(@, "start")]
            /\ UNCHANGED srv
       ELSE \/ /\ svc' = [svc EXCEPT ![i] = Advance(@, "start")]
               /\ srv' = [srv EXCEPT ![svc[i].server].state = "started"]
            \/ /\ svc' = [svc EXCEPT ![i] = Raise(@, "start")]
               /\ UNCHANGED srv
    /\ UNCHANGED <<mode, argc, flagHost, kept, waiting, lastStore, load, mainPc,
                   interrupted, delCount, foreign, reusePort, sawInUse, lastRead, calls>>

\* The stub factory: a stub targeting the endpoint string, built without
\* connecting; or a failure.
CreateStub(self, address) ==
    {[Advance(self, "stub") EXCEPT !.stub = address], Raise(self, "stub")}

\* self.stub = stubs_util.create_vizier_server_stub(self.endpoint)
StubStep(i) ==
    /\ Running(i) /\ Cur(i) = "stub"
    /\ \E next \in CreateStub(svc[i], endpoint(svc[i])) :
          svc' = [svc EXCEPT ![i] = next]
    /\ UNCHANGED <<mode, argc, flagHost, kept, waiting, lastStore, load, mainPc,
                   interrupted, delCount, srv, foreign, reusePort, sawInUse, lastRead,
                   calls>>

\* __attrs_post_init__ falls off its end: the constructor returns the object.
ReturnStep(i) ==
    /\ Running(i)
    /\ svc[i].pc = "init" /\ Len(svc[i].done) = Len(StepOrder)
    /\ svc' = [svc EXCEPT ![i].pc = "returned"]
    /\ UNCHANGED <<mode, argc, flagHost, kept, waiting, lastStore, load, mainPc,
                   interrupted, delCount, srv, foreign, reusePort, sawInUse, lastRead,
                   calls>>

\* ------------------------------------------------------------- destruction

\* A server taken down: stopped if it was started, its socket closed and its
\* pool shut down.
Closed(s) ==
    IF s.exists
    THEN [s EXCEPT !.state = IF @ = "started" THEN "stopped" ELSE @,
                   !.port = 0, !.pool = "shutdown", !.handler = 0]
    ELSE s

\* Calls that were on their way to, or running on, a server of set S are cut.
Cut(S) ==
    [c \in CallIds |->
        IF calls[c].state \in {"queued", "running"} /\ calls[c].at \in S
        THEN [calls[c] EXCEPT !.state = "failed"]
        ELSE calls[c]]

\* The last reference to a VizierService goes away (a caller's `del`, or the
\* end of the scope holding it).
DropReference(self) == [self EXCEPT !.pc = "deleted"]

\* An unreferenced VizierService is collected, and with it the server it holds:
\* the transport takes a collected server down.  A half-built object whose
\* constructor raised is unreferenced once the library caller has handled the error.
Dealloc(i) ==
    /\ ProcAlive
    /\ waiting[i] = 0
    /\ \/ svc[i].pc = "deleted"
       \/ svc[i].pc = "raised" /\ mode = "library"
    /\ svc' = [svc EXCEPT ![i] = [NoSvc EXCEPT !.pc = "freed"]]
    /\ srv' = [srv EXCEPT ![i] = Closed(@)]
    /\ calls' = Cut({i})
    /\ sawInUse' = [sawInUse EXCEPT ![i] = ""]
    /\ lastRead' = [lastRead EXCEPT ![i] = ""]
    /\ load' = [load EXCEPT ![i] = NoLoad]
    /\ lastStore' = [lastStore EXCEPT ![i] = NoStore]
    /\ UNCHANGED <<mode, argc, flagHost, kept, waiting, mainPc, interrupted, delCount,
                   foreign, reusePort>>

\* What `del` on the user's name for a host raises: nothing while the name is
\* bound, NameError once an earlier `del` has unbound it.
DelRaises(k) == IF k.dels = 0 THEN "" ELSE "NameError"

\* A library user releases host i the way main does, by `del` on its name for
\* it.  The class has no release method; this statement is the release.  Run a
\* second time, the name is no longer bound.
Release(i) ==
    /\ ProcAlive /\ mode = "library"
    /\ kept[i].dels < MaxDels
    /\ IF kept[i].dels = 0 THEN svc[i].pc = "returned" ELSE TRUE
    /\ kept' = [kept EXCEPT ![i].dels = @ + 1, ![i].error = DelRaises(kept[i])]
    /\ svc' = [svc EXCEPT ![i] = IF kept[i].dels = 0 THEN DropReference(@) ELSE @]
    /\ UNCHANGED <<mode, argc, flagHost, waiting, lastStore, load, mainPc, interrupted,
                   delCount, srv, foreign, reusePort, sawInUse, lastRead, calls>>

\* A library user copies the stub attribute of host i into a name of its own.
KeepStub(i) ==
    /\ ProcAlive /\ mode = "library"
    /\ svc[i].pc = "returned" /\ kept[i].stub = ""
    /\ kept' = [kept EXCEPT ![i].stub = svc[i].stub]
    /\ UNCHANGED <<mode, argc, flagHost, waiting, lastStore, load, mainPc, interrupted,
                   delCount, svc, srv, foreign, reusePort, sawInUse, lastRead, calls>>

\* ------------------------------------------------------------------- reads

\* A read of the endpoint property by a holder of the object.
ReadEndpoint(i) ==
    /\ ProcAlive /\ mode = "library"
    /\ svc[i].pc = "returned"
    /\ lastRead' = [lastRead EXCEPT ![i] = endpoint(svc[i])]
    /\ UNCHANGED <<mode, argc, flagHost, kept, waiting, lastStore, load, mainPc,
                   interrupted, delCount, svc, srv, foreign, reusePort, sawInUse, calls>>

\* Mutant: the accessor hands out a store that is not the servicer's.
datastoreDetached(self) == DatastoreOf(0)

\* return self._servicer.datastore
datastore(self) == DatastoreOf(self.servicer)

\* A read of the datastore property by a holder of the object.
ReadDatastore(i) ==
    /\ ProcAlive /\ mode = "library"
    /\ svc[i].pc = "returned"
    /\ lastStore' = [lastStore EXCEPT ![i] = datastore(svc[i])]
    /\ UNCHANGED <<mode, argc, flagHost, kept, waiting, load, mainPc, interrupted, delCount,
                   svc, srv, foreign, reusePort, sawInUse, lastRead, calls>>

\* -------------------------------------------------------------------- wait

\* Mutant: the sleep stalls the pool of the host's server as well.
SleepHoldsPool(i) == {i}

\* Servers whose worker pool a sleep in wait_for_early_stop_recycle_period of
\* host i keeps from running: time.sleep suspends the calling thread only.
SleepHolds(i) == {}

\* Servers whose pool is kept from running by some sleeper.
Stalled == UNION {SleepHolds(i) : i \in {k \in Hosts : waiting[k] > 0}}

\* A caller enters wait_for_early_stop_recycle_period and sleeps for
\* self._early_stop_recycle_period.total_seconds().
WaitBegin(i) ==
    /\ ProcAlive /\ mode = "library"
    /\ svc[i].pc = "returned" /\ waiting[i] = 0
    /\ waiting' = [waiting EXCEPT ![i] = svc[i].period]
    /\ UNCHANGED <<mode, argc, flagHost, kept, lastStore, load, mainPc, interrupted, delCount,
                   svc, srv, foreign, reusePort, sawInUse, lastRead, calls>>

\* The sleep is over and the method returns to its caller.
WaitEnd(i) ==
    /\ ProcAlive
    /\ waiting[i] > 0
    /\ waiting' = [waiting EXCEPT ![i] = 0]
    /\ UNCHANGED <<mode, argc, flagHost, kept, lastStore, load, mainPc, interrupted, delCount,
                   svc, srv, foreign, reusePort, sawInUse, lastRead, calls>>

\* ------------------------------------------------------------------- calls

\* Servers accepting connections on port q.
Listening(q) == {j \in Hosts : srv[j].exists /\ srv[j].state = "started" /\ srv[j].port = q}

\* A holder of host i issues a call through i's stub.
IssueCall(c, i) ==
    /\ ProcAlive
    /\ calls[c].state = "none"
    /\ \A d \in CallIds : d < c => calls[d].state # "none"
    /\ svc[i].pc = "returned" /\ svc[i].stub # ""
    /\ calls' = [calls EXCEPT ![c] = [NoCall EXCEPT !.state = "sent", !.via = i,
                                                     !.to = svc[i].stub]]
    /\ UNCHANGED <<mode, argc, flagHost, kept, waiting, lastStore, load, mainPc,
                   interrupted, delCount, svc, srv, foreign, reusePort, sawInUse,
                   lastRead>>

\* A library user issues a call through the stub it kept of host i, after it
\* has released the host.
IssueKept(c, i) ==
    /\ ProcAlive /\ mode = "library"
    /\ calls[c].state = "none"
    /\ \A d \in CallIds : d < c => calls[d].state # "none"
    /\ kept[i].stub # "" /\ kept[i].dels > 0
    /\ calls' = [calls EXCEPT ![c] = [NoCall EXCEPT !.state = "sent", !.via = i,
                                                     !.to = kept[i].stub, !.late = TRUE]]
    /\ UNCHANGED <<mode, argc, flagHost, kept, waiting, lastStore, load, mainPc, interrupted,
                   delCount, svc, srv, foreign, reusePort, sawInUse, lastRead>>

\* The stub's channel connects to the address it was built with: to one of the
\* servers accepting on that port, or to nobody, and then the call fails.
Connect(c) ==
    /\ ProcAlive
    /\ calls[c].state = "sent"
    /\ LET q == TargetPort(calls[c].to) IN
       IF Listening(q) = {}
       THEN calls' = [calls EXCEPT ![c].state = "failed"]
       ELSE \E j \in Listening(q) : calls' = [calls EXCEPT ![c].state = "queued", ![c].at = j]
    /\ UNCHANGED <<mode, argc, flagHost, kept, waiting, lastStore, load, mainPc,
                   interrupted, delCount, svc, srv, foreign, reusePort, sawInUse,
                   lastRead>>

\* Calls a server's pool is running.
RunningOn(j) == {c \in CallIds : calls[c].state = "running" /\ calls[c].at = j}

\* Workers of server j's pool that are running a handler: for calls through
\* the stubs and for calls of other clients.
Busy(j) == Cardinality(RunningOn(j)) + load[j].running

\* Mutant: the pool starts a worker for every call.
PoolUnbounded(j) == TRUE

\* ThreadPoolExecutor(max_workers=30): a queued call is taken when fewer than
\* max_workers workers are busy.
PoolHasFreeWorker(j) == Busy(j) < MaxWorkers

\* A free worker of the server's pool takes the call to the registered servicer.
Handle(c) ==
    /\ ProcAlive
    /\ calls[c].state = "queued"
    /\ PoolHasFreeWorker(calls[c].at) /\ calls[c].at \notin Stalled
    /\ calls' = [calls EXCEPT ![c].state = "running", ![c].by = srv[calls[c].at].handler]
    /\ UNCHANGED <<mode, argc, flagHost, kept, waiting, lastStore, load, mainPc,
                   interrupted, delCount, svc, srv, foreign, reusePort, sawInUse,
                   lastRead>>

\* The servicer answers and the answer reaches the stub's caller.
Respond(c) ==
    /\ ProcAlive
    /\ calls[c].state = "running"
    /\ calls' = [calls EXCEPT ![c].state = "ok"]
    /\ UNCHANGED <<mode, argc, flagHost, kept, waiting, lastStore, load, mainPc,
                   interrupted, delCount, svc, srv, foreign, reusePort, sawInUse,
                   lastRead>>

\* A call of another client arrives at server j and is queued for its pool.
ExtArrive(j) ==
    /\ ProcAlive
    /\ j \in Listening(srv[j].port)
    /\ load[j].queued < MaxBacklog
    /\ load' = [load EXCEPT ![j].queued = @ + 1]
    /\ UNCHANGED <<mode, argc, flagHost, kept, waiting, lastStore, mainPc, interrupted,
                   delCount, svc, srv, foreign, reusePort, sawInUse, lastRead, calls>>

\* A free worker takes a queued call of another client.
ExtHandle(j) ==
    /\ ProcAlive
    /\ load[j].queued > 0
    /\ PoolHasFreeWorker(j) /\ j \notin Stalled
    /\ load' = [load EXCEPT ![j].queued = @ - 1, ![j].running = @ + 1]
    /\ UNCHANGED <<mode, argc, flagHost, kept, waiting, lastStore, mainPc, interrupted,
                   delCount, svc, srv, foreign, reusePort, sawInUse, lastRead, calls>>

\* The handler of a call of another client returns; its worker is free again.
ExtDone(j) ==
    /\ ProcAlive
    /\ load[j].running > 0
    /\ load' = [load EXCEPT ![j].running = @ - 1]
    /\ UNCHANGED <<mode, argc, flagHost, kept, waiting, lastStore, mainPc, interrupted,
                   delCount, svc, srv, foreign, reusePort, sawInUse, lastRead, calls>>

\* -------------------------------------------------------------------- main

\* The process ends: the operating system closes every socket and the pools go.
ExitTeardown ==
    /\ srv' = [j \in Hosts |-> Closed(srv[j])]
    /\ load' = [j \in Hosts |-> NoLoad]
    /\ calls' = [c \in CallIds |->
                    IF calls[c].state \in {"sent", "queued", "running"}
                    THEN [calls[c] EXCEPT !.state = "failed"]
                    ELSE calls[c]]

\* Mutant: one extra argument is let through.
TooManyArgsOffByOne(n) == n > 2

\* len(argv) > 1
TooManyArgs(n) == n > 1

\* if len(argv) > 1: raise app.UsageError(...)
MainUsageError ==
    /\ mainPc = "start" /\ TooManyArgs(argc)
    /\ mainPc' = "exit_usage"
    /\ UNCHANGED <<mode, argc, flagHost, kept, waiting, lastStore, load, interrupted,
                   delCount, svc, srv, foreign, reusePort, sawInUse, lastRead, calls>>

\* service = VizierService(host=FLAGS.host, port=FLAGS.port): the call is entered.
MainConstruct ==
    /\ mainPc = "start" /\ ~TooManyArgs(argc)
    /\ \E p \in PortArgs : Construct(1, flagHost, p)
    /\ mainPc' = "construct"
    /\ UNCHANGED <<mode, argc, flagHost, kept, waiting, lastStore, load, interrupted,
                   delCount, srv, foreign, reusePort, sawInUse, lastRead, calls>>

\* The constructor returned: service is assigned.
MainAssign ==
    /\ mainPc = "construct" /\ svc[1].pc = "returned"
    /\ mainPc' = "log"
    /\ UNCHANGED <<mode, argc, flagHost, kept, waiting, lastStore, load, interrupted,
                   delCount, svc, srv, foreign, reusePort, sawInUse, lastRead, calls>>

\* The constructor raised: nothing in main catches it and the process ends.
MainPropagate ==
    /\ mainPc = "construct" /\ svc[1].pc = "raised"
    /\ mainPc' = "exit_error"
    /\ ExitTeardown
    /\ UNCHANGED <<mode, argc, flagHost, kept, waiting, lastStore, interrupted, delCount,
                   svc, foreign, reusePort, sawInUse, lastRead>>

\* logging.info('Address to Vizier Server is: %s', service.endpoint)
MainLog ==
    /\ mainPc = "log"
    /\ lastRead' = [lastRead EXCEPT ![1] = endpoint(svc[1])]
    /\ mainPc' = "idle"
    /\ UNCHANGED <<mode, argc, flagHost, kept, waiting, lastStore, load, interrupted,
                   delCount, svc, srv, foreign, reusePort, sawInUse, calls>>

\* Mutant: the wait is not in a loop, main goes on after one sleep.
AfterSleepOnce == "return"

\* while True: time.sleep(_ONE_DAY_IN_SECONDS): after a sleep, the next sleep.
AfterSleep == "idle"

\* A sleep of the idle loop runs out.
MainSleep ==
    /\ mainPc = "idle"
    /\ mainPc' = AfterSleep
    /\ UNCHANGED <<mode, argc, flagHost, kept, waiting, lastStore, load, interrupted,
                   delCount, svc, srv, foreign, reusePort, sawInUse, lastRead, calls>>

\* Mutant: no except clause around the loop.
OnInterruptUncaught(pc) == "exit_interrupt"

\* Where a KeyboardInterrupt raised at pc takes main: only the idle loop is
\* inside the try whose except clause catches it.
OnInterrupt(pc) == IF pc = "idle" THEN "handler" ELSE "exit_interrupt"

\* The external interrupt is delivered to the main thread.
Interrupt ==
    /\ interrupted = ""
    /\ mainPc \in {"start", "construct", "log", "idle"}
    /\ interrupted' = mainPc
    /\ mainPc' = OnInterrupt(mainPc)
    /\ IF OnInterrupt(mainPc) = "handler" THEN UNCHANGED <<srv, calls, load>> ELSE ExitTeardown
    /\ UNCHANGED <<mode, argc, flagHost, kept, waiting, lastStore, delCount, svc, foreign,
                   reusePort, sawInUse, lastRead>>

\* except KeyboardInterrupt: del service
MainDel ==
    /\ mainPc = "handler"
    /\ svc' = [svc EXCEPT ![1] = DropReference(@)]
    /\ delCount' = delCount + 1
    /\ mainPc' = "return"
    /\ UNCHANGED <<mode, argc, flagHost, kept, waiting, lastStore, load, interrupted, srv,
                   foreign, reusePort, sawInUse, lastRead, calls>>

\* main returns and app.run ends the process with status 0.
MainReturn ==
    /\ mainPc = "return"
    /\ mainPc' = "exit_ok"
    /\ ExitTeardown
    /\ UNCHANGED <<mode, argc, flagHost, kept, waiting, lastStore, interrupted, delCount,
                   svc, foreign, reusePort, sawInUse, lastRead>>

\* -------------------------------------------------------------------- spec

Init ==
    /\ mode \in {"script", "library"}
    /\ argc \in IF mode = "script" THEN {1, 2} ELSE {1}
    /\ flagHost \in HostNames
    /\ mainPc = IF mode = "script" THEN "start" ELSE "off"
    /\ interrupted = ""
    /\ delCount = 0
    /\ svc = [i \in Hosts |-> NoSvc]
    /\ srv = [i \in Hosts |-> NoSrv]
    /\ foreign \in {{}, {DefaultPort}}
    /\ reusePort \in BOOLEAN
    /\ sawInUse = [i \in Hosts |-> ""]
    /\ lastRead = [i \in Hosts |-> ""]
    /\ calls = [c \in CallIds |-> NoCall]
    /\ kept = [i \in Hosts |-> NoKept]
    /\ waiting = [i \in Hosts |-> 0]
    /\ lastStore = [i \in Hosts |-> NoStore]
    /\ load = [j \in Hosts |-> NoLoad]

\* The statements of __attrs_post_init__ and the collection of the object.
HostNext ==
    \/ \E i \in Hosts : ServicerStep(i)
    \/ \E i \in Hosts : ServerStep(i)
    \/ \E i \in Hosts : RegisterStep(i)
    \/ \E i \in Hosts : BindStep(i)
    \/ \E i \in Hosts : StartStep(i)
    \/ \E i \in Hosts : StubStep(i)
    \/ \E i \in Hosts : ReturnStep(i)
    \/ \E i \in Hosts : Dealloc(i)

\* What users of the imported class do.
UserNext ==
    \/ \E i \in Hosts : BeginConstruct(i)
    \/ \E i \in Hosts : ReadEndpoint(i)

\* Calls through the stubs.
CallNext ==
    \/ \E c \in CallIds, i \in Hosts : IssueCall(c, i)
    \/ \E c \in CallIds : Connect(c)
    \/ \E c \in CallIds : Handle(c)
    \/ \E c \in CallIds : Respond(c)

\* The statements of main, and the interrupt.
MainNext ==
    \/ MainUsageError
    \/ MainConstruct
    \/ MainAssign
    \/ MainPropagate
    \/ MainLog
    \/ MainSleep
    \/ Interrupt
    \/ MainDel
    \/ MainReturn

\* What a library user does with a host beyond constructing and reading it.
HolderNext ==
    \/ \E i \in Hosts : Release(i) \/ KeepStub(i)
    \/ \E c \in CallIds, i \in Hosts : IssueKept(c, i)

\* The other operations on a constructed host, and the other clients of its server.
UseOps ==
    \/ \E i \in Hosts : ReadDatastore(i)
    \/ \E i \in Hosts : WaitBegin(i)
    \/ \E i \in Hosts : WaitEnd(i)
    \/ \E j \in Hosts : ExtArrive(j)
    \/ \E j \in Hosts : ExtHandle(j)
    \/ \E j \in Hosts : ExtDone(j)

Next == HostNext \/ UserNext \/ CallNext \/ MainNext \/ HolderNext

\* The whole program: run as a script, or imported.
Spec == Init /\ [][Next]_vars

\* One host in use: a library user constructs a single VizierService, reads its
\* properties, waits, and issues calls through its stub while other clients
\* load the server.
UseInit == Init /\ mode = "library"

UseNext ==
    \/ BeginConstruct(1)
    \/ \E i \in Hosts : ReadEndpoint(i)
    \/ HostNext \/ CallNext \/ UseOps

UseSpec == UseInit /\ [][UseNext]_vars

\* The class imported and constructed by concurrent users.
LibInit == Init /\ mode = "library"

LibNext == HostNext \/ UserNext

LibSpec == LibInit /\ [][LibNext]_vars

\* The file run as a script.
MainInit == Init /\ mode = "script"

ScriptNext == HostNext \/ CallNext \/ MainNext

MainSpec == MainInit /\ [][ScriptNext]_vars

\* ------------------------------------------------------------------ claims

Range(f) == {f[k] : k \in DOMAIN f}

IsPrefix(a, b) == Len(a) <= Len(b) /\ \A k \in 1 .. Len(a) : a[k] = b[k]

\* C1: in every construction the six initialization steps happen in the order
\* servicer, server, register, bind, start, stub, each after the previous one
\* completed; the constructor returns only after the sixth, and the stub never
\* exists before the server was started.
C1_StepsInOrder ==
    \A i \in Hosts :
        svc[i].pc # "freed" =>
            /\ IsPrefix(svc[i].done, <<"servicer", "server", "register", "bind", "start", "stub">>)
            /\ svc[i].pc = "returned" => Len(svc[i].done) = 6
            /\ svc[i].server # 0 => svc[i].servicer # 0
            /\ srv[i].exists <=> svc[i].server # 0
            /\ srv[i].handler # 0 => srv[i].exists
            /\ srv[i].port # 0 => (srv[i].handler = svc[i].servicer /\ srv[i].handler # 0)
            /\ srv[i].state # "new" => srv[i].port # 0
            /\ svc[i].stub # "" => srv[i].state = "started"

\* C1 witness: a constructor has returned with its stub built and its server started.
C1_Witness ==
    \E i \in Hosts :
        svc[i].pc = "returned" /\ svc[i].stub # "" /\ srv[i].state = "started"

\* C2: if the endpoint's port is already in use when a host is constructed,
\* construction fails at the bind and the server created before it is never
\* started.
C2_InUseFailsConstruction ==
    \A i \in Hosts :
        sawInUse[i] = "inuse" =>
            /\ svc[i].pc = "raised" /\ svc[i].failedAt = "bind"
            /\ srv[i].state = "new" /\ srv[i].port = 0

\* C3: once the error of a failed stub construction has propagated to the
\* caller, the server started in step 5 is no longer listening.
C3_StubFailureStopsServer ==
    \A i \in Hosts :
        (svc[i].pc = "raised" /\ svc[i].failedAt = "stub") => srv[i].state # "started"

\* C4: once the error of a failed initialization step has propagated to the
\* caller, no bound socket and no worker pool of that attempt remains.
C4_FailureReleasesResources ==
    \A i \in Hosts :
        svc[i].pc = "raised" => (srv[i].port = 0 /\ srv[i].pool # "live")

\* C5: if instantiating the servicer fails, the error propagates before any
\* network resource is touched: no server object, no bound port, no stub.
C5_ServicerFailureTouchesNothing ==
    \A i \in Hosts :
        svc[i].failedAt = "servicer" =>
            /\ svc[i].pc = "raised"
            /\ svc[i].server = 0 /\ ~srv[i].exists /\ srv[i].pool = "none"
            /\ srv[i].port = 0 /\ srv[i].state = "new"
            /\ svc[i].stub = ""

\* C5 witness: a construction failed at the servicer.
C5_Witness == \E i \in Hosts : svc[i].pc = "raised" /\ svc[i].failedAt = "servicer"

\* C6: in no state are two hosts of the process bound to the same port, and of
\* two constructions on the same endpoint at most one returns.
C6_NoSharedEndpoint ==
    \A i, j \in Hosts :
        i # j =>
            /\ ~(srv[i].port # 0 /\ srv[i].port = srv[j].port)
            /\ ~(/\ svc[i].pc = "returned" /\ svc[j].pc = "returned"
                 /\ svc[i].port # 0 /\ endpoint(svc[i]) = endpoint(svc[j]))

\* The text of a port of the model, digit by digit from the default port.
PortText(p) == IF p = 0 THEN "0" ELSE "2808" \o Digit[p - 28080 + 1]

\* C7: a construction whose port is free does not fail at the bind, and every
\* read of endpoint returns host ':' port of the constructor arguments, the same
\* on every read, and changes nothing of the host.
C7_EndpointExact ==
    /\ [](\A i \in Hosts :
            /\ svc[i].failedAt = "bind" => sawInUse[i] = "inuse"
            /\ sawInUse[i] = "free" => "bind" \in Range(svc[i].done)
            /\ lastRead[i] # "" => lastRead[i] = svc[i].host \o ":" \o PortText(svc[i].port))
    /\ [][\A i \in Hosts :
            /\ (lastRead[i] # "" /\ svc'[i].pc = "returned") => lastRead'[i] = lastRead[i]
            /\ lastRead'[i] # lastRead[i] => (svc' = svc /\ srv' = srv /\ calls' = calls)]_vars

\* C7 witness: the endpoint of a host constructed on a fixed port has been read.
C7_Witness ==
    \E i \in Hosts :
        /\ svc[i].pc = "returned" /\ svc[i].port = DefaultPort + 1
        /\ lastRead[i] = flagHost \o ":28081"

\* C8: a call issued through the stub of a constructed, unreleased host ends
\* answered by the servicer registered on that host's server.
C8_CallReachesServicer ==
    \A c \in CallIds :
        (/\ calls[c].state \in {"ok", "failed"}
         /\ ProcAlive
         /\ svc[calls[c].via].pc = "returned") =>
            (calls[c].state = "ok" /\ calls[c].by = svc[calls[c].via].servicer)

\* C9 as stated: once the server has started and while no interrupt has been
\* delivered, the process is alive and the server listening.
C9_StartedStaysUp ==
    ("start" \in Range(svc[1].done) /\ interrupted = "") =>
        (ProcAlive /\ srv[1].state = "started" /\ srv[1].port # 0)

\* C9 amended: once the constructor has returned to main and while no interrupt
\* has been delivered, main is at its log line or in the idle loop, the process
\* is alive and the server listening on its worker pool.
C9_ConstructedStaysUp ==
    (svc[1].pc = "returned" /\ interrupted = "") =>
        /\ mainPc \in {"construct", "log", "idle"}
        /\ srv[1].state = "started" /\ srv[1].port # 0 /\ srv[1].pool = "live"
        /\ delCount = 0

\* C9 witness: main sits in the idle loop, uninterrupted, with the server up.
C9_Witness ==
    mainPc = "idle" /\ interrupted = "" /\ svc[1].pc = "returned" /\ srv[1].state = "started"

\* C10: an interrupt that arrives in the idle loop is caught; main deletes the
\* service exactly once and the process then exits with normal status, the
\* server stopped and its socket and pool released.
C10_InterruptReleasesOnce ==
    /\ delCount <= 1
    /\ interrupted = "idle" =>
        /\ mainPc \in {"handler", "return", "exit_ok"}
        /\ mainPc = "handler" => delCount = 0
        /\ mainPc \in {"return", "exit_ok"} =>
              (delCount = 1 /\ svc[1].pc \in {"deleted", "freed"})
        /\ mainPc = "exit_ok" =>
              (srv[1].state = "stopped" /\ srv[1].port = 0 /\ srv[1].pool = "shutdown")
    /\ mainPc = "exit_ok" => interrupted = "idle"

\* C10 witness: the process has exited normally after an interrupt in the idle loop.
C10_Witness == interrupted = "idle" /\ mainPc = "exit_ok" /\ delCount = 1

\* C14: when main is given arguments beyond the program name, the run ends in
\* the usage error with nothing constructed: no service object, no servicer,
\* no server, no port bound, nothing started.
C14_UsageErrorBeforeConstruction ==
    argc > 1 =>
        /\ mainPc \in {"start", "exit_usage", "exit_interrupt"}
        /\ \A i \in Hosts :
              /\ svc[i] = NoSvc
              /\ srv[i] = NoSrv
              /\ \A q \in PortArgs : Listening(q) = {}

\* C14 witness: main has raised the usage error.
C14_Witness == argc > 1 /\ mainPc = "exit_usage" /\ svc[1] = NoSvc /\ srv[1] = NoSrv

\* C15 as stated: for every constructed host, whatever its port argument, the
\* stub targets the port the server listens on, and that address is the string
\* endpoint returns.
C15_StubTargetsBoundEndpoint ==
    \A i \in Hosts :
        svc[i].pc = "returned" =>
            /\ svc[i].stub = endpoint(svc[i])
            /\ TargetPort(svc[i].stub) = srv[i].port

\* C18 as stated: an interrupt delivered once the server has been started ends
\* the run with the service deleted by main and the process exiting normally.
C18_InterruptAfterStartExitsNormally ==
    (interrupted # "" /\ ~ProcAlive /\ srv[1].state = "stopped") =>
        (mainPc = "exit_ok" /\ delCount = 1)

\* C11 as stated: releasing a host twice in a row produces no error.  (The
\* second release leaves the host as the first left it, and frees nothing again.)
C11_ReleaseTwiceNoError ==
    \A i \in Hosts : kept[i].dels > 0 => kept[i].error = ""

\* C12 as stated: a call issued through the stub of a released host never
\* reaches a servicer.
C12_LateCallNeverServed ==
    \A c \in CallIds : calls[c].late => calls[c].state \notin {"running", "ok"}

\* C13: while a caller of wait_for_early_stop_recycle_period sleeps, it sleeps
\* for the configured recycle period and will return; the worker pool is not
\* held up: a queued call is taken as soon as a worker is free, a running call
\* can be answered and a sent call can connect, whoever is sleeping.
C13_WaitSuspendsOnlyCaller ==
    \A i \in Hosts :
        waiting[i] > 0 =>
            /\ waiting[i] = RecyclePeriodMs /\ waiting[i] = svc[i].period
            /\ ENABLED WaitEnd(i)
            /\ Stalled = {}
            /\ \A c \in CallIds :
                  /\ calls[c].state = "sent" => ENABLED Connect(c)
                  /\ (calls[c].state = "queued" /\ Busy(calls[c].at) < MaxWorkers)
                        => ENABLED Handle(c)
                  /\ calls[c].state = "running" => ENABLED Respond(c)
            /\ \A j \in Hosts :
                  (load[j].queued > 0 /\ Busy(j) < MaxWorkers) => ENABLED ExtHandle(j)

\* C13 witness: a call through host 1's stub is being handled by the pool of its
\* server while a caller sleeps in the wait method of the same host.
C13_Witness ==
    /\ waiting[1] = RecyclePeriodMs
    /\ \E c \in CallIds : calls[c].state = "running" /\ calls[c].via = 1 /\ calls[c].at = 1

\* C16: no server ever runs more than max_workers handlers at once; a call
\* queued for a server stays queued until a worker takes it (it is not dropped),
\* it is taken only when fewer than max_workers workers are busy, and it can be
\* taken whenever that is so.
C16_PoolBounded ==
    /\ [](\A j \in Hosts :
            /\ Busy(j) <= MaxWorkers
            /\ load[j].running >= 0 /\ load[j].queued >= 0)
    /\ [](\A c \in CallIds :
            calls[c].state = "queued" =>
                (ENABLED Handle(c) <=> Busy(calls[c].at) < MaxWorkers))
    /\ [][\A c \in CallIds :
            /\ calls[c].state = "queued" => calls'[c].state \in {"queued", "running"}
            /\ (calls[c].state = "queued" /\ calls'[c].state = "running")
                  => (Busy(calls[c].at) < MaxWorkers /\ calls'[c].at = calls[c].at)]_vars

\* C16 witness: every worker of server 1 is busy and a call through the stub
\* waits in the queue.
C16_Witness ==
    /\ Busy(1) = MaxWorkers
    /\ \E c \in CallIds : calls[c].state = "queued" /\ calls[c].at = 1

\* C17: once the constructor has returned, reading endpoint or datastore,
\* waiting and calling through the stub leave every attribute of the host (host,
\* port, recycle period, servicer, server, stub) and its server unchanged, and a
\* read of datastore returned the store of the servicer registered with the server.
C17_ReadOnlyAfterInit ==
    /\ [](\A i \in Hosts :
            lastStore[i] # NoStore =>
                /\ svc[i].pc = "returned"
                /\ srv[i].handler = svc[i].servicer
                /\ lastStore[i] = DatastoreOf(srv[i].handler))
    /\ [][\A i \in Hosts :
            svc[i].pc = "returned" => (svc'[i] = svc[i] /\ srv'[i] = srv[i])]_vars

\* C17 witness: on a constructed host both properties have been read, a caller
\* is in the wait method and a call through the stub has been answered.
C17_Witness ==
    /\ svc[1].pc = "returned"
    /\ lastStore[1] = DatastoreOf(svc[1].servicer) /\ lastRead[1] = endpoint(svc[1])
    /\ waiting[1] > 0
    /\ \E c \in CallIds : calls[c].state = "ok" /\ calls[c].via = 1

====
